---- MODULE Spec2Model ----
(***************************************************************************)
(* State-machine model of the netflow-db incremental rollup pipeline       *)
(* (src/netflow-db): the processed_files catalog, discovery and gap        *)
(* synthesis, stale-day invalidation, and the per-table processors.        *)
(*                                                                         *)
(* Time is in Unix seconds.  The 5-minute, 30-minute and 1-hour lengths    *)
(* are the program's; the length of a calendar day is HoursPerDay hours    *)
(* (24 in the program) so that whole days fit in a finite check.  Local    *)
(* time is UTC + tz, a fixed offset of the host the pipeline runs on.      *)
(* Timestamp 0 is a UTC midnight one day before DATA_START_DATE's date.    *)
(***************************************************************************)
EXTENDS Integers, Sequences, FiniteSets, TLC

\* ---------------------------------------------------------------- bounds
HoursPerDay == 2

\* ------------------------------------------------------ program constants
SecsPerSlot == 300
HalfHourSecs == 1800
HourSecs == 3600
DaySecs == HoursPerDay * HourSecs

NULL == 0 - 1

AVAILABLE_ROUTERS == {"r1", "r2"}

Tables == {"flow_stats", "ip_stats", "protocol_stats", "spectrum_stats", "structure_stats"}

\* Local UTC offsets of the hosts considered.
TzOffsets == {0, 0 - HourSecs}

VARIABLES
    tz,     \* local-time offset of the host (seconds east of UTC)
    now,    \* wall clock
    tree,   \* the capture files on disk: a set of file paths
    pf,     \* table processed_files: file_path -> row
    stats,  \* the metric tables: table -> (<<router, granularity, bucket_start>> -> row)
    run,    \* the process_pending_files call in progress, if any
    last    \* what the last completed operation was and what it returned

\* ------------------------------------------------------------ time helpers

\* datetime.fromtimestamp / datetime.timestamp: naive local time <-> Unix.
unix_to_timestamp(unix_ts) == unix_ts + tz

timestamp_to_unix(dt) == dt - tz

\* dt.replace(hour=0, minute=0, second=0, microsecond=0), as a Unix time.
LocalDayStart(unix_ts) ==
    timestamp_to_unix((unix_to_timestamp(unix_ts) \div DaySecs) * DaySecs)

\* datetime(2025, 2, 1): local midnight.
DATA_START_DATE == timestamp_to_unix(DaySecs)

\* --------------------------------------------------------------- file paths

\* <base>/<router>/<Y>/<m>/<d>/nfcapd.<YmdHM>: the directory date and the
\* file name are both formatted from the local time of the capture.  `name`
\* is the part of the file name between the first and the second dot, as its
\* date and its time of day in minutes; `ext` is what follows a second dot.
construct_file_path(router, unix_ts) ==
    LET dt == unix_to_timestamp(unix_ts)
    IN  [router |-> router,
         dir    |-> dt \div DaySecs,
         name   |-> <<dt \div DaySecs, (dt % DaySecs) \div 60>>,
         ext    |-> <<>>]

\* The router is the path component four levels above the file name; the
\* timestamp is read from filename.split('.')[1] alone.
parse_file_path(path) ==
    [router    |-> path.router,
     timestamp |-> timestamp_to_unix(path.name[1] * DaySecs + path.name[2] * 60)]

SetMax(S) == CHOOSE x \in S : \A y \in S : y <= x

SetMin(S) == CHOOSE x \in S : \A y \in S : x <= y

\* ------------------------------------------------------------- environment

\* Capture times at which a file may appear, as offsets from DATA_START_DATE:
\* one slot before the start date, the first slots of the first day with a
\* hole at 00:10, and the first slots of the following day.
ArrivalOffsets ==
    [r1 |-> {0 - SecsPerSlot, 0, SecsPerSlot, 3 * SecsPerSlot, DaySecs},
     r2 |-> {2 * SecsPerSlot, DaySecs + SecsPerSlot}]

ArrivalTimes(router) == {DATA_START_DATE + o : o \in ArrivalOffsets[router]}

\* The arrivals followed through processing: in the first day of r1 the
\* slots 00:00, 00:05 and 00:15 and one in the second hour; of r2 the last
\* slot of the first day and the first slot of the next day.
PipelineOffsets ==
    [r1 |-> {0, SecsPerSlot, 3 * SecsPerSlot, HourSecs + 2 * SecsPerSlot},
     r2 |-> {DaySecs - SecsPerSlot, DaySecs}]

PipelineTimes(router) == {DATA_START_DATE + o : o \in PipelineOffsets[router]}

\* The capture that reaches the tree late: r1's 00:00 of the first day.
LateFiles == {<<"r1", DATA_START_DATE>>}

\* Captures reach the tree in the order of their times, those of `late`
\* whenever.
InOrder(router, unix_ts, late) ==
    \/ <<router, unix_ts>> \in late
    \/ \A r \in AVAILABLE_ROUTERS : \A t \in PipelineTimes(r) :
          (t < unix_ts /\ <<r, t>> \notin late) => construct_file_path(r, t) \in tree

\* nfcapd drops a new capture file into the tree, named after its local time.
FileArrives(router, unix_ts) ==
    /\ run.phase = "idle"
    /\ construct_file_path(router, unix_ts) \notin tree
    /\ tree' = tree \cup {construct_file_path(router, unix_ts)}
    /\ last' = [op |-> "arrive"]
    /\ UNCHANGED <<tz, now, pf, stats, run>>

\* A file in r1's directory of the first day that matches nfcapd.* and is
\* not named after a capture time, as nfcapd's file in progress.
MalformedPath == [router |-> "r1", dir |-> 1, name |-> <<1>>, ext |-> <<>>]

MalformedFileArrives ==
    /\ run.phase = "idle"
    /\ MalformedPath \notin tree
    /\ tree' = tree \cup {MalformedPath}
    /\ last' = [op |-> "arrive"]
    /\ UNCHANGED <<tz, now, pf, stats, run>>

\* A second file of r1's capture of 00:05 of the first day, named as the
\* capture file with a suffix (nfcapd.<YmdHM>.tmp), in the same directory.
StrayPath ==
    [construct_file_path("r1", DATA_START_DATE + SecsPerSlot) EXCEPT !.ext = <<"tmp">>]

StrayFileArrives ==
    /\ run.phase = "idle"
    /\ StrayPath \notin tree
    /\ tree' = tree \cup {StrayPath}
    /\ last' = [op |-> "arrive"]
    /\ UNCHANGED <<tz, now, pf, stats, run>>

\* --------------------------------------------------- catalog: discovery.py

NewRow(router, unix_ts, file_exists) ==
    [router       |-> router,
     timestamp    |-> unix_ts,
     file_exists  |-> file_exists,
     processed_at |-> NULL,
     status       |-> [t \in Tables |-> NULL]]

\* parse_file_path raises ValueError: filename.split('.')[1] is not a
\* timestamp of 12 digits.
RaisesValueError(path) == Len(path.name) # 2

\* The files the directory walk yields: those of the known routers whose
\* timestamp is not before DATA_START_DATE.  A file whose path does not
\* parse is reported in a warning and passed over.
scan_filesystem(files) ==
    {p \in files : /\ p.router \in AVAILABLE_ROUTERS
                   /\ ~RaisesValueError(p)
                   /\ parse_file_path(p).timestamp >= DATA_START_DATE}

RealTimes(cat) == {cat[p].timestamp : p \in {q \in DOMAIN cat : cat[q].file_exists = 1}}

\* Seeded fault: a horizon past the latest row of any kind, placeholders
\* included, so that every synthesis moves it.
HorizonAfterLastRow(cat) ==
    IF DOMAIN cat = {} THEN DATA_START_DATE
    ELSE SetMax({cat[p].timestamp : p \in DOMAIN cat}) + 2 * SecsPerSlot

\* Seeded fault: a horizon taken from the files of the first router alone.
HorizonOfFirstRouter(cat) ==
    LET times == {cat[p].timestamp :
                    p \in {q \in DOMAIN cat : cat[q].file_exists = 1 /\ cat[q].router = "r1"}}
    IN  IF times = {} THEN DATA_START_DATE ELSE SetMax(times)

\* SELECT MAX(timestamp) ... WHERE file_exists = 1, else DATA_START_DATE.
compute_data_horizon(cat) ==
    IF RealTimes(cat) = {} THEN DATA_START_DATE ELSE SetMax(RealTimes(cat))

RouterRealTimes(cat, router) ==
    {cat[p].timestamp :
        p \in {q \in DOMAIN cat : cat[q].router = router /\ cat[q].file_exists = 1}}

\* Seeded fault: a grid walked in steps of two slots.
GridEverySecondSlot(start_time, end_time) ==
    {start_time + 2 * k * SecsPerSlot :
        k \in 0 .. ((end_time - start_time - 1) \div (2 * SecsPerSlot))}

\* The 5-minute grid walked from start_time while current < end_time.
GridFrom(start_time, end_time) ==
    {start_time + k * SecsPerSlot : k \in 0 .. ((end_time - start_time - 1) \div SecsPerSlot)}

identify_gaps(cat, router, start_time, end_time) ==
    LET existing == {cat[p].timestamp :
                        p \in {q \in DOMAIN cat :
                                 /\ cat[q].router = router
                                 /\ cat[q].timestamp >= start_time
                                 /\ cat[q].timestamp < end_time}}
    IN  {t \in GridFrom(start_time, end_time) : t \notin existing}

\* INSERT OR IGNORE of `rows`, a function file_path -> row.
InsertOrIgnore(cat, rows) ==
    [p \in DOMAIN cat \cup DOMAIN rows |-> IF p \in DOMAIN cat THEN cat[p] ELSE rows[p]]

\* Phase 1 of sync_processed_files_table.
SyncPhase1(cat, files) ==
    InsertOrIgnore(cat,
        [p \in scan_filesystem(files) |->
            NewRow(parse_file_path(p).router, parse_file_path(p).timestamp, 1)])

\* The gap placeholders phase 2 inserts: path -> timestamp, per router that
\* has a real file, from its earliest real file to the horizon.
GapRows(cat) ==
    LET horizon == compute_data_horizon(cat)
    IN  UNION {
          {<<router, t>> :
              t \in identify_gaps(cat, router, SetMin(RouterRealTimes(cat, router)), horizon)}
          : router \in {r \in AVAILABLE_ROUTERS : RouterRealTimes(cat, r) # {}}}

\* Phase 2 of sync_processed_files_table.
SyncPhase2(cat) ==
    InsertOrIgnore(cat,
        [p \in {construct_file_path(g[1], g[2]) : g \in GapRows(cat)} |->
            NewRow(p.router, parse_file_path(p).timestamp, 0)])

sync_processed_files_table(include_gaps) ==
    LET found == scan_filesystem(tree)
        cat1  == SyncPhase1(pf, tree)
        cat2  == IF include_gaps THEN SyncPhase2(cat1) ELSE cat1
    IN  /\ run.phase = "idle"
        /\ pf' = cat2
        /\ last' = [op           |-> "sync",
                    include_gaps |-> include_gaps,
                    repeat       |-> last.op = "sync",
                    discovered   |-> Cardinality(found),
                    new_files    |-> Cardinality(DOMAIN cat1 \ DOMAIN pf),
                    gaps         |-> Cardinality(DOMAIN cat2 \ DOMAIN cat1)]
        /\ UNCHANGED <<tz, now, tree, stats, run>>

\* ------------------------------------------- pending work: discovery.py

\* Seeded fault: the days that have started by the horizon.
get_started_days(cat) ==
    LET data_horizon == compute_data_horizon(cat)
    IN  {<<cat[p].router, LocalDayStart(cat[p].timestamp)>> :
            p \in {q \in DOMAIN cat : data_horizon >= LocalDayStart(cat[q].timestamp)}}

\* (router, local day start) of every row whose day ends at or before the horizon.
get_complete_days(cat) ==
    LET data_horizon == compute_data_horizon(cat)
    IN  {<<cat[p].router, LocalDayStart(cat[p].timestamp)>> :
            p \in {q \in DOMAIN cat :
                     data_horizon >= LocalDayStart(cat[q].timestamp) + DaySecs}}

\* Seeded fault: failed intervals selected again with the unset ones.
UnprocessedOrFailed(cat, table) == {p \in DOMAIN cat : cat[p].status[table] \in {NULL, 0}}

\* WHERE <table>_status IS NULL.
Unprocessed(cat, table) == {p \in DOMAIN cat : cat[p].status[table] = NULL}

\* Seeded fault: ORDER BY timestamp DESC LIMIT limit.
OrderedLimitNewestFirst(cat, rows, limit) ==
    IF limit = 0 \/ limit >= Cardinality(rows) THEN {rows}
    ELSE LET Above(t) == {p \in rows : cat[p].timestamp > t}
             At(t)    == {p \in rows : cat[p].timestamp = t}
             cut      == CHOOSE t \in {cat[p].timestamp : p \in rows} :
                            /\ Cardinality(Above(t)) <= limit
                            /\ limit < Cardinality(Above(t)) + Cardinality(At(t))
         IN  {Above(cut) \cup x :
                 x \in {y \in SUBSET At(cut) :
                          Cardinality(y) = limit - Cardinality(Above(cut))}}

\* ORDER BY timestamp ASC LIMIT limit: the results the query can give.  Rows
\* of different routers with one timestamp are in no defined order, so any of
\* them may be the ones cut off.  limit = 0 stands for None (no LIMIT clause).
OrderedLimit(cat, rows, limit) ==
    IF limit = 0 \/ limit >= Cardinality(rows) THEN {rows}
    ELSE LET Below(t) == {p \in rows : cat[p].timestamp < t}
             At(t)    == {p \in rows : cat[p].timestamp = t}
             cut      == CHOOSE t \in {cat[p].timestamp : p \in rows} :
                            /\ Cardinality(Below(t)) <= limit
                            /\ limit < Cardinality(Below(t)) + Cardinality(At(t))
         IN  {Below(cut) \cup x :
                 x \in {y \in SUBSET At(cut) :
                          Cardinality(y) = limit - Cardinality(Below(cut))}}

\* The filter applied to the limited query result.
CompleteDayFilter(cat, rows, complete_days_only) ==
    IF ~complete_days_only THEN rows
    ELSE LET complete_days == get_complete_days(cat)
         IN  {p \in rows :
                <<cat[p].router, LocalDayStart(cat[p].timestamp)>> \in complete_days}

\* The rows of complete days whose status for the table is unset.
UnprocessedInCompleteDays(cat, table) ==
    CompleteDayFilter(cat, Unprocessed(cat, table), TRUE)

\* The sets of files get_files_needing_processing can return.
get_files_needing_processing(cat, table, limit, complete_days_only) ==
    {CompleteDayFilter(cat, rows, complete_days_only) :
        rows \in OrderedLimit(cat, Unprocessed(cat, table), limit)}

\* (router, day_start) of each file of `files`.
DayKeys(cat, files) == {<<cat[p].router, LocalDayStart(cat[p].timestamp)>> : p \in files}

\* group_files_by_day: (router, day_start) -> the files of `files` in that day.
group_files_by_day(cat, files) ==
    [k \in DayKeys(cat, files) |->
        {p \in files : cat[p].router = k[1] /\ LocalDayStart(cat[p].timestamp) = k[2]}]

\* ------------------------------------------------ stale days: discovery.py

StaleCutoffDays == 30

\* (timestamp / 86400) * 86400 in SQL: the start of the UTC day.
SqlDayStart(unix_ts) == (unix_ts \div DaySecs) * DaySecs

get_stale_days(cat, table) ==
    {k \in {<<cat[p].router, SqlDayStart(cat[p].timestamp)>> : p \in DOMAIN cat} :
        /\ \E p \in DOMAIN cat : /\ cat[p].router = k[1]
                                 /\ SqlDayStart(cat[p].timestamp) = k[2]
                                 /\ cat[p].status[table] = 1
        /\ \E p \in DOMAIN cat : /\ cat[p].router = k[1]
                                 /\ SqlDayStart(cat[p].timestamp) = k[2]
                                 /\ cat[p].status[table] = NULL}

\* The rows of one metric table that reset_day_for_reprocessing deletes.
InDay(key, router, day_start) ==
    key[1] = router /\ key[3] >= day_start /\ key[3] < day_start + DaySecs

\* Applied to every day of `days`: DELETE the day's stats rows of the table.
ResetStats(st, table, days) ==
    [st EXCEPT ![table] =
        [k \in {j \in DOMAIN st[table] : ~\E d \in days : InDay(j, d[1], d[2])} |->
            st[table][k]]]

\* Seeded fault: a reset that turns the day's rows into placeholders.
ResetStatusAndExistence(cat, table, days) ==
    [p \in DOMAIN cat |->
        IF \E d \in days : /\ cat[p].router = d[1]
                           /\ cat[p].timestamp >= d[2]
                           /\ cat[p].timestamp < d[2] + DaySecs
        THEN [cat[p] EXCEPT !.status[table] = NULL, !.file_exists = 0]
        ELSE cat[p]]

\* Seeded fault: a reset that clears the day's statuses of every table.
ResetStatusAllTables(cat, table, days) ==
    [p \in DOMAIN cat |->
        IF \E d \in days : /\ cat[p].router = d[1]
                           /\ cat[p].timestamp >= d[2]
                           /\ cat[p].timestamp < d[2] + DaySecs
        THEN [cat[p] EXCEPT !.status = [t \in Tables |-> NULL]]
        ELSE cat[p]]

\* Applied to every day of `days`: UPDATE processed_files SET <table>_status = NULL.
ResetStatus(cat, table, days) ==
    [p \in DOMAIN cat |->
        IF \E d \in days : /\ cat[p].router = d[1]
                           /\ cat[p].timestamp >= d[2]
                           /\ cat[p].timestamp < d[2] + DaySecs
        THEN [cat[p] EXCEPT !.status[table] = NULL]
        ELSE cat[p]]

\* The stale days handle_stale_days resets: those not older than the cutoff.
RecentStaleDays(cat, table, clock) ==
    LET cutoff_unix == LocalDayStart(clock) - StaleCutoffDays * DaySecs
    IN  {d \in get_stale_days(cat, table) : d[2] >= cutoff_unix}

\* The stale days handle_stale_days counts and passes over: those older than
\* the cutoff.
SkippedOldDays(cat, table, clock) ==
    get_stale_days(cat, table) \ RecentStaleDays(cat, table, clock)

\* handle_stale_days: the catalog, the metric tables and the summary after it.
handle_stale_days(cat, st, table, clock) ==
    LET stale  == get_stale_days(cat, table)
        recent == RecentStaleDays(cat, table, clock)
    IN  [pf      |-> ResetStatus(cat, table, recent),
         stats   |-> ResetStats(st, table, recent),
         summary |-> [stale_days_total       |-> Cardinality(stale),
                      stale_days_reset       |-> Cardinality(recent),
                      stale_days_skipped_old |-> Cardinality(stale) - Cardinality(recent)]]

\* ---------------------------------------------- status marks: discovery.py

AllStatusSet(row) == \A t \in Tables : row.status[t] # NULL

\* batch_mark_processed: one UPDATE per result, then processed_at for every
\* row of the table that is complete and has none.
batch_mark_processed(cat, table, mark_results, clock) ==
    LET marked == [p \in DOMAIN cat |->
                     IF p \in DOMAIN mark_results
                     THEN [cat[p] EXCEPT !.status[table] =
                                            IF mark_results[p] THEN 1 ELSE 0]
                     ELSE cat[p]]
    IN  [p \in DOMAIN cat |->
            IF marked[p].processed_at = NULL /\ AllStatusSet(marked[p])
            THEN [marked[p] EXCEPT !.processed_at = clock]
            ELSE marked[p]]

\* mark_file_processed: one UPDATE; the CASE reads the row as it was before
\* this UPDATE assigns the status column.
mark_file_processed(cat, file_path, table, success, clock) ==
    [cat EXCEPT ![file_path] =
        [@ EXCEPT !.status[table] = IF success THEN 1 ELSE 0,
                  !.processed_at  = IF AllStatusSet(cat[file_path])
                                    THEN clock ELSE cat[file_path].processed_at]]

\* ------------------------------------------------ extraction and rollups

\* One modelled address stands for a block of AddrsPerBlock addresses.
AddrsPerBlock == 50

MIN_IPS_FOR_SPECTRUM == 100

\* What nfdump reads from a capture file: its set of addresses.  A file's
\* content is fixed; files three slots apart hold the same addresses.
FileIps(path) ==
    LET slot == parse_file_path(path).timestamp \div SecsPerSlot
    IN  {slot % 3}

\* len(set).
IpCount(ips) == AddrsPerBlock * Cardinality(ips)

\* compute_spectrum / compute_structure_function: nothing below the floor,
\* else what the external tool makes of the set.
compute_spectrum(ips) == IF IpCount(ips) < MIN_IPS_FOR_SPECTRUM THEN {} ELSE ips

\* The value a table stores for a merged address set.
Finalize(table, ips) ==
    IF table \in {"spectrum_stats", "structure_stats"} THEN compute_spectrum(ips)
    ELSE IpCount(ips)

\* Seeded fault: an extraction that never times out.
process_file_without_timeout(cat, table, path, timeouts) ==
    IF cat[path].file_exists = 0 THEN [success |-> TRUE, raw |-> {}]
    ELSE [success |-> TRUE, raw |-> FileIps(path)]

\* process_file / process_file_worker of a table on one catalog row; `timeouts`
\* are the files whose nfdump call times out in this run.  spectrum and
\* structure swallow the timeout in extract_ips and go on with empty sets.
process_file(cat, table, path, timeouts) ==
    IF cat[path].file_exists = 0 THEN [success |-> TRUE, raw |-> {}]
    ELSE IF path \in timeouts
         THEN IF table \in {"spectrum_stats", "structure_stats"}
              THEN [success |-> TRUE, raw |-> {}]
              ELSE [success |-> FALSE, raw |-> {}]
         ELSE [success |-> TRUE, raw |-> FileIps(path)]

Granularities == {"30m", "1h", "1d"}

durations == [x \in Granularities |->
                IF x = "30m" THEN HalfHourSecs ELSE IF x = "1h" THEN HourSecs ELSE DaySecs]

\* The bucket of a granularity a timestamp falls in; the 1d bucket is the
\* day_start the worker was given.
BucketStart(granularity, unix_ts, day_start) ==
    IF granularity = "1d" THEN day_start
    ELSE timestamp_to_unix(
            (unix_to_timestamp(unix_ts) \div durations[granularity]) * durations[granularity])

\* compute_aggregates: key -> row, from the successful results of `files`.
compute_aggregates(cat, table, files, timeouts, router, day_start) ==
    LET ok   == {p \in files : process_file(cat, table, p, timeouts).success}
        keys == {<<router, g, BucketStart(g, cat[p].timestamp, day_start)>> :
                    g \in Granularities, p \in ok}
    IN  [k \in keys |->
            [bucket_end |-> k[3] + durations[k[2]],
             val |-> Finalize(table,
                        UNION {process_file(cat, table, p, timeouts).raw :
                                 p \in {q \in ok :
                                          BucketStart(k[2], cat[q].timestamp, day_start) = k[3]}})]]

RECURSIVE StreamBuckets(_, _, _, _, _)
\* The loop of protocol_db.aggregate_buckets from the state `s` on: `current`
\* walks the day in 5-minute steps; the extraction of a file that exists is
\* merged into the three running sets; after the step the 30m set is
\* written and emptied when mins % 30 = 0, the 1h set when mins % 60 = 0;
\* the 1d set is written once the walk has reached day_end.
StreamBuckets(cat, table, timeouts, router, s) ==
    IF s.current >= s.day_start + DaySecs
    THEN [k \in DOMAIN s.rows \cup {<<router, "1d", s.day_start>>} |->
            IF k \in DOMAIN s.rows THEN s.rows[k]
            ELSE [bucket_end |-> s.day_start + DaySecs, val |-> Finalize(table, s.agg_1d)]]
    ELSE LET path    == construct_file_path(router, s.current)
             raw     == IF path \in DOMAIN cat /\ cat[path].file_exists = 1
                        THEN process_file(cat, table, path, timeouts).raw ELSE {}
             mins    == s.mins + 5
             current == s.current + SecsPerSlot
             w30     == mins % 30 = 0
             w1h     == mins % 60 = 0
             written == [k \in (IF w30 THEN {<<router, "30m", current - HalfHourSecs>>} ELSE {})
                                \cup (IF w1h THEN {<<router, "1h", current - HourSecs>>} ELSE {}) |->
                            [bucket_end |-> current,
                             val |-> Finalize(table, IF k[2] = "30m" THEN s.agg_30m \cup raw
                                                     ELSE s.agg_1h \cup raw)]]
         IN  StreamBuckets(cat, table, timeouts, router,
                 [current   |-> current,
                  mins      |-> mins,
                  day_start |-> s.day_start,
                  agg_30m   |-> IF w30 THEN {} ELSE s.agg_30m \cup raw,
                  agg_1h    |-> IF w1h THEN {} ELSE s.agg_1h \cup raw,
                  agg_1d    |-> s.agg_1d \cup raw,
                  rows      |-> [k \in DOMAIN s.rows \cup DOMAIN written |->
                                    IF k \in DOMAIN written THEN written[k] ELSE s.rows[k]]])

\* protocol_db.aggregate_buckets for the day of router that starts at
\* day_start: the 30m, 1h and 1d rows it writes, key -> row.
aggregate_buckets(cat, table, timeouts, router, day_start) ==
    StreamBuckets(cat, table, timeouts, router,
        [current |-> day_start, mins |-> 0, day_start |-> day_start,
         agg_30m |-> {}, agg_1h |-> {}, agg_1d |-> {}, rows |-> <<>>])

\* The 5m rows of the successful results of `files`.
Rows5m(cat, table, files, timeouts) ==
    LET ok == {p \in files : process_file(cat, table, p, timeouts).success}
    IN  [k \in {<<cat[p].router, "5m", cat[p].timestamp>> : p \in ok} |->
            [bucket_end |-> k[3] + SecsPerSlot,
             val |-> Finalize(table,
                        UNION {process_file(cat, table, p, timeouts).raw :
                                 p \in {q \in ok : cat[q].router = k[1]
                                                   /\ cat[q].timestamp = k[3]}})]]

\* process_day_worker: what a worker returns for one (router, day) task.
process_day_worker(cat, table, router, day_start, files, timeouts) ==
    [rows_5m      |-> Rows5m(cat, table, files, timeouts),
     rows_agg     |-> compute_aggregates(cat, table, files, timeouts, router, day_start),
     mark_results |-> [p \in files |-> process_file(cat, table, p, timeouts).success],
     errors       |-> Cardinality({p \in files :
                                     ~process_file(cat, table, p, timeouts).success})]

\* INSERT OR REPLACE of `rows` into one metric table.
Upsert(st, table, rows) ==
    [st EXCEPT ![table] =
        [k \in DOMAIN st[table] \cup DOMAIN rows |->
            IF k \in DOMAIN rows THEN rows[k] ELSE st[table][k]]]

\* insert_results: every row is inserted under its own try/except, so a row
\* whose INSERT raises (`rejected`) is logged and skipped.
insert_results(st, table, rows_5m, rows_agg, rejected) ==
    LET rows == [k \in (DOMAIN rows_5m \cup DOMAIN rows_agg) \ rejected |->
                    IF k \in DOMAIN rows_5m THEN rows_5m[k] ELSE rows_agg[k]]
    IN  Upsert(st, table, rows)

\* ------------------------------------------------------------ processors

\* The (router, local day) pairs of which some intervals are marked success
\* for the table and some are unset.
PartialDays(cat, table) ==
    {k \in DayKeys(cat, DOMAIN cat) :
        /\ \E p \in DOMAIN cat : /\ <<cat[p].router, LocalDayStart(cat[p].timestamp)>> = k
                                 /\ cat[p].status[table] = 1
        /\ \E p \in DOMAIN cat : /\ <<cat[p].router, LocalDayStart(cat[p].timestamp)>> = k
                                 /\ cat[p].status[table] = NULL}

\* The status values of the table that differ between two catalogs, as they
\* are in the first.
ClearedValues(cat, cat2, table) ==
    {cat[p].status[table] : p \in {q \in DOMAIN cat : cat2[q].status[table] # cat[q].status[table]}}

Idle == [phase |-> "idle"]

\* The processors that dispatch (router, day) tasks to a worker pool.
DayParallelTables == {"ip_stats", "spectrum_stats", "structure_stats"}

\* Seeded fault: structure workers writing as the spectrum workers do.
SpectrumAndStructureWorkersWrite == {"spectrum_stats", "structure_stats"}

\* The processors whose workers open their own connection and write.
WorkerWritesDirectly == {"spectrum_stats"}

\* Files whose nfdump call may time out in a run: r1's of the second hour.
FlakyFiles(cat) ==
    {p \in DOMAIN cat : cat[p].router = "r1"
                        /\ cat[p].timestamp = DATA_START_DATE + HourSecs + 2 * SecsPerSlot}

\* The values of --limit tried: none (0), and one half-hour's worth.
Limits == {0, 6}

\* process_pending_files of a day-parallel table, up to the dispatch of the
\* day tasks: stale-day reset (committed), pending query, grouping.
BeginProcess(table, limit, timeouts) ==
    LET h == handle_stale_days(pf, stats, table, now)
    IN  /\ run.phase = "idle"
        /\ table \in DayParallelTables
        /\ timeouts \subseteq FlakyFiles(pf)
        /\ \E pending \in get_files_needing_processing(h.pf, table, limit, TRUE) :
              /\ pf' = h.pf
              /\ stats' = h.stats
              /\ IF pending = {}
                 THEN /\ run' = Idle
                      /\ last' = [op |-> "process", table |-> table, limit |-> limit,
                                  stale |-> h.summary, partial |-> PartialDays(pf, table),
                                  skipped |-> SkippedOldDays(pf, table, now),
                                  cleared |-> ClearedValues(pf, h.pf, table),
                                  tasks |-> <<>>, timeouts |-> {}, outcomes |-> <<>>,
                                  days |-> 0]
                 ELSE /\ run' = [phase    |-> "running",
                                 table    |-> table,
                                 limit    |-> limit,
                                 tasks    |-> group_files_by_day(h.pf, pending),
                                 timeouts |-> timeouts \cap pending,
                                 todo     |-> DayKeys(h.pf, pending),
                                 inserted |-> {},
                                 outcomes |-> <<>>,
                                 days     |-> 0,
                                 stale    |-> h.summary,
                                 partial  |-> PartialDays(pf, table),
                                 skipped  |-> SkippedOldDays(pf, table, now)]
                      /\ last' = [op |-> "dispatch", table |-> table, limit |-> limit,
                                  stale |-> h.summary,
                                  skipped |-> SkippedOldDays(pf, table, now),
                                  cleared |-> ClearedValues(pf, h.pf, table)]
        /\ UNCHANGED <<tz, now, tree>>

\* The result the pool hands back for task `unit` of the run in progress.
ResultOf(unit) ==
    process_day_worker(pf, run.table, unit[1], unit[2], run.tasks[unit], run.timeouts)

\* How often a worker calls compute_spectrum / compute_structure_function
\* for each bucket of one task, per direction: in process_file for every
\* file that exists, in compute_aggregates for every bucket it holds, and,
\* in spectrum_db only, in insert_results for every successful result again.
FinalizeCalls(cat, table, router, day_start, files, timeouts) ==
    LET ok        == {p \in files : process_file(cat, table, p, timeouts).success}
        extracted == {p \in files : cat[p].file_exists = 1}
        inserted  == IF table = "spectrum_stats" THEN ok ELSE {}
        agg       == DOMAIN compute_aggregates(cat, table, files, timeouts, router, day_start)
        At(S, k)  == Cardinality({p \in S : cat[p].router = k[1] /\ cat[p].timestamp = k[3]})
    IN  [k \in agg \cup {<<cat[p].router, "5m", cat[p].timestamp>> : p \in files} |->
            IF k[2] = "5m" THEN At(extracted, k) + At(inserted, k) ELSE 1]

\* Rows whose INSERT may be made to raise: none, or the day's 1d row.
RejectChoices(unit) == {{}, {<<unit[1], "1d", unit[2]>>}}

\* Seeded fault: a unit whose commit has raised is handed out again.
RetryFailedUnit(todo, unit) == todo

\* Seeded fault: the exception of a failed commit ends the loop.
AbortRun(todo, unit) == {}

\* The tasks still to be consumed once the commit of `unit` has raised: the
\* except clause rolls back and the loop goes on with the next result.
AfterFailedCommit(todo, unit) == todo \ {unit}

\* The run record after `unit` was consumed with `outcome` by the process
\* `by` (finally: stats['days'] += 1); the call returns when no task is left.
Consumed(unit, outcome, left, by) ==
    LET outcomes == [u \in DOMAIN run.outcomes \cup {unit} |->
                        IF u = unit THEN outcome ELSE run.outcomes[u]]
    IN  /\ run' = IF left = {} THEN Idle
                  ELSE [run EXCEPT !.todo = left,
                                   !.inserted = @ \ {unit},
                                   !.outcomes = outcomes,
                                   !.days = @ + 1]
        /\ last' = [op       |-> IF left = {} THEN "process" ELSE "commit",
                    table    |-> run.table,
                    limit    |-> run.limit,
                    stale    |-> run.stale,
                    partial  |-> run.partial,
                    skipped  |-> run.skipped,
                    tasks    |-> run.tasks,
                    timeouts |-> run.timeouts,
                    unit     |-> unit,
                    outcome  |-> outcome,
                    outcomes |-> outcomes,
                    days     |-> run.days + 1,
                    by       |-> by]

\* The parent consumes one finished task (imap_unordered: any of them) and
\* commits it in one transaction: BEGIN, insert_results,
\* batch_mark_processed(commit=False), commit.  The INSERT of each row of
\* `rejected` raises.
CommitTransaction(unit, rejected) ==
    /\ run.phase = "running"
    /\ run.table \notin WorkerWritesDirectly
    /\ unit \in run.todo
    /\ LET result == ResultOf(unit)
       IN  /\ stats' = insert_results(stats, run.table, result.rows_5m,
                                      result.rows_agg, rejected)
           /\ pf' = batch_mark_processed(pf, run.table, result.mark_results, now)
    /\ Consumed(unit, IF rejected = {} THEN "ok" ELSE "row_error", run.todo \ {unit}, "parent")
    /\ UNCHANGED <<tz, now, tree>>

\* The parent's commit of a task with no INSERT raising, or that of the
\* day's 1d row.
ParentCommit(unit, rejected) ==
    /\ rejected \in RejectChoices(unit)
    /\ CommitTransaction(unit, rejected)

\* The 5m row of the earliest interval of a task of the run in progress.
FirstIntervalRow(unit) ==
    <<unit[1], "5m", SetMin({pf[p].timestamp : p \in run.tasks[unit]})>>

\* The parent's commit of a task with the INSERT of the 5m row of the
\* task's earliest interval raising.
ParentCommitRowFails(unit) == CommitTransaction(unit, {FirstIntervalRow(unit)})

\* The same, with batch_mark_processed or the commit raising: rollback.
ParentCommitFails(unit) ==
    /\ run.phase = "running"
    /\ run.table \notin WorkerWritesDirectly
    /\ unit \in run.todo
    /\ Consumed(unit, "txn_error", AfterFailedCommit(run.todo, unit), "parent")
    /\ UNCHANGED <<tz, now, tree, pf, stats>>

\* A spectrum worker, on its own connection: insert_results, which commits.
WorkerInsert(unit) ==
    /\ run.phase = "running"
    /\ run.table \in WorkerWritesDirectly
    /\ unit \in run.todo \ run.inserted
    /\ LET result == ResultOf(unit)
       IN  stats' = insert_results(stats, run.table, result.rows_5m, result.rows_agg, {})
    /\ run' = [run EXCEPT !.inserted = @ \cup {unit}]
    /\ last' = [op |-> "insert", table |-> run.table, unit |-> unit, by |-> "worker"]
    /\ UNCHANGED <<tz, now, tree, pf>>

\* Seeded fault: a worker that marks its intervals and never inserts.
WorkerMarksBeforeInsert(unit) ==
    /\ run.phase = "running"
    /\ run.table \in WorkerWritesDirectly
    /\ unit \in run.todo \ run.inserted
    /\ pf' = batch_mark_processed(pf, run.table, ResultOf(unit).mark_results, now)
    /\ Consumed(unit, "ok", run.todo \ {unit}, "worker")
    /\ UNCHANGED <<tz, now, tree, stats>>

\* The same worker next: batch_mark_processed, which commits; pool.map
\* returns when every worker has.
WorkerMark(unit) ==
    /\ run.phase = "running"
    /\ run.table \in WorkerWritesDirectly
    /\ unit \in run.inserted
    /\ pf' = batch_mark_processed(pf, run.table, ResultOf(unit).mark_results, now)
    /\ Consumed(unit, "ok", run.todo \ {unit}, "worker")
    /\ UNCHANGED <<tz, now, tree, stats>>

\* The processes of a worker-writes-directly run are killed: what the
\* workers have committed stays, nothing else is written.
Crash ==
    /\ run.phase = "running"
    /\ run.table \in WorkerWritesDirectly
    /\ run' = Idle
    /\ last' = [op |-> "crash", table |-> run.table, inserted |-> run.inserted]
    /\ UNCHANGED <<tz, now, tree, pf, stats>>

\* batch_insert_results: one row per successful result, keyed by its file,
\* written and committed by the parent.
batch_insert_results(st, cat, results) ==
    LET ok == {p \in DOMAIN results : results[p].success}
    IN  Upsert(st, "flow_stats",
            [k \in {<<cat[p].router, "file", cat[p].timestamp>> : p \in ok} |->
                [bucket_end |-> NULL,
                 val |-> IpCount(UNION {results[p].raw :
                            p \in {q \in ok : /\ cat[q].router = k[1]
                                              /\ cat[q].timestamp = k[3]}})]])

\* The rest of flow_db.process_pending_files once the stale days are reset.
FlowBatches(cat, st, limit, timeouts, summary) ==
    \E pending \in get_files_needing_processing(cat, "flow_stats", limit, TRUE) :
        LET results == [p \in pending |-> process_file(cat, "flow_stats", p, timeouts)]
        IN  /\ stats' = batch_insert_results(st, cat, results)
            /\ pf' = batch_mark_processed(cat, "flow_stats",
                                          [p \in pending |-> results[p].success], now)
            /\ last' = [op |-> "process", table |-> "flow_stats", stale |-> summary,
                        files |-> pending, timeouts |-> timeouts \cap pending,
                        by |-> "parent"]

\* The body of flow_db.process_pending_files: the stale days reset, then
\* batches of files extracted in the pool and written by the parent
\* (batch_insert_results, batch_mark_processed).
FlowRun(limit, timeouts) ==
    LET h == handle_stale_days(pf, stats, "flow_stats", now)
    IN  /\ timeouts \subseteq FlakyFiles(pf)
        /\ FlowBatches(h.pf, h.stats, limit, timeouts, h.summary)
        /\ UNCHANGED <<tz, now, tree, run>>

\* flow_db.process_pending_files, no other pipeline being at work.
ProcessFlow(limit, timeouts) ==
    /\ run.phase = "idle"
    /\ FlowRun(limit, timeouts)

RECURSIVE MarkEach(_, _, _, _)
\* mark_file_processed for each file of `files` in turn.
MarkEach(cat, files, table, clock) ==
    IF files = {} THEN cat
    ELSE LET p == CHOOSE q \in files : TRUE
         IN  MarkEach(mark_file_processed(cat, p, table, TRUE, clock),
                      files \ {p}, table, clock)

\* The body of protocol_db.process_pending_files: file by file in the one
\* process, a 5m row and mark_file_processed for each, in one transaction
\* (fewer than 100 files); process_file swallows a timeout.
ProtocolRun(limit, timeouts) ==
    /\ timeouts \subseteq FlakyFiles(pf)
    /\ \E pending \in get_files_needing_processing(pf, "protocol_stats", limit, TRUE) :
          LET raw(p) == IF pf[p].file_exists = 0 \/ p \in timeouts THEN {} ELSE FileIps(p)
              rows == [k \in {<<pf[p].router, "5m", pf[p].timestamp>> : p \in pending} |->
                         [bucket_end |-> k[3] + SecsPerSlot,
                          val |-> IpCount(UNION {raw(p) :
                                     p \in {q \in pending : /\ pf[q].router = k[1]
                                                            /\ pf[q].timestamp = k[3]}})]]
          IN  /\ stats' = Upsert(stats, "protocol_stats", rows)
              /\ pf' = MarkEach(pf, pending, "protocol_stats", now)
              /\ last' = [op |-> "process", table |-> "protocol_stats",
                          files |-> pending, timeouts |-> timeouts \cap pending,
                          by |-> "parent"]
    /\ UNCHANGED <<tz, now, tree, run>>

\* protocol_db.process_pending_files, no other pipeline being at work.
ProcessProtocol(limit, timeouts) ==
    /\ run.phase = "idle"
    /\ ProtocolRun(limit, timeouts)

\* A second process (flow_db.py or protocol_db.py run on its own) on the
\* same store while the workers of a day-parallel run extract: its
\* transaction is committed between two commits of the run in progress.
OtherPipeline(table) ==
    /\ run.phase = "running"
    /\ \/ table = "flow_stats" /\ FlowRun(0, {})
       \/ table = "protocol_stats" /\ ProtocolRun(0, {})

\* Time passes: more than the stale-day cutoff.
Tick ==
    /\ run.phase = "idle"
    /\ now < DATA_START_DATE + StaleCutoffDays * DaySecs
    /\ now' = now + (StaleCutoffDays + 1) * DaySecs
    /\ last' = [op |-> "tick"]
    /\ UNCHANGED <<tz, tree, pf, stats, run>>

vars == <<tz, now, tree, pf, stats, run, last>>

Init ==
    /\ tz \in TzOffsets
    /\ now = DATA_START_DATE + 3 * DaySecs
    /\ tree = {}
    /\ pf = <<>>
    /\ stats = [t \in Tables |-> <<>>]
    /\ run = Idle
    /\ last = [op |-> "init"]

\* Discovery alone.
NextDiscovery ==
    \/ \E router \in AVAILABLE_ROUTERS : \E t \in ArrivalTimes(router) : FileArrives(router, t)
    \/ \E include_gaps \in BOOLEAN : sync_processed_files_table(include_gaps)

SpecDiscovery == Init /\ [][NextDiscovery]_vars

\* The pipeline with the ip_stats processor over time: --tables ip_stats,
\* with and without --limit, one capture arriving late.
NextIp ==
    \/ \E router \in AVAILABLE_ROUTERS : \E t \in PipelineTimes(router) :
          InOrder(router, t, LateFiles) /\ FileArrives(router, t)
    \/ sync_processed_files_table(TRUE)
    \/ \E limit \in Limits : \E timeouts \in SUBSET FlakyFiles(pf) :
          BeginProcess("ip_stats", limit, timeouts)
    \/ \E unit \in (IF run.phase = "running" THEN run.todo ELSE {}) : ParentCommit(unit, {})
    \/ Tick

SpecIp == Init /\ [][NextIp]_vars

\* The parent-commit processors with rejected rows and failing commits.
NextFail ==
    \/ \E router \in AVAILABLE_ROUTERS : \E t \in PipelineTimes(router) :
          InOrder(router, t, {}) /\ FileArrives(router, t)
    \/ sync_processed_files_table(TRUE)
    \/ \E table \in DayParallelTables \ WorkerWritesDirectly : BeginProcess(table, 0, {})
    \/ \E unit \in (IF run.phase = "running" THEN run.todo ELSE {}) :
          \/ \E rejected \in RejectChoices(unit) : ParentCommit(unit, rejected)
          \/ ParentCommitFails(unit)

SpecFail == Init /\ [][NextFail]_vars

\* The pipeline with all five processors, without --limit.
Next ==
    \/ \E router \in AVAILABLE_ROUTERS : \E t \in PipelineTimes(router) :
          InOrder(router, t, {}) /\ FileArrives(router, t)
    \/ sync_processed_files_table(TRUE)
    \/ \E table \in DayParallelTables : BeginProcess(table, 0, {})
    \/ \E unit \in (IF run.phase = "running" THEN run.todo ELSE {}) :
          \/ ParentCommit(unit, {})
          \/ WorkerInsert(unit)
          \/ WorkerMark(unit)
    \/ ProcessFlow(0, {})
    \/ ProcessProtocol(0, {})

Spec == Init /\ [][Next]_vars

\* The flow, protocol and structure processors with one capture arriving
\* late, after its day was processed, and nfdump timing out on a file.
NextLate ==
    \/ \E router \in AVAILABLE_ROUTERS : \E t \in PipelineTimes(router) :
          InOrder(router, t, LateFiles) /\ FileArrives(router, t)
    \/ sync_processed_files_table(TRUE)
    \/ \E timeouts \in SUBSET FlakyFiles(pf) : BeginProcess("structure_stats", 0, timeouts)
    \/ \E unit \in (IF run.phase = "running" THEN run.todo ELSE {}) : ParentCommit(unit, {})
    \/ \E timeouts \in SUBSET FlakyFiles(pf) : ProcessFlow(0, timeouts)
    \/ \E timeouts \in SUBSET FlakyFiles(pf) : ProcessProtocol(0, timeouts)

SpecLate == Init /\ [][NextLate]_vars

\* The values of --tables tried: one processor, alone or after a name that
\* is not a key of PROCESSORS.
TableLists ==
    {<<"flow_stats">>, <<"protocol_stats">>,
     <<"flow_stat", "flow_stats">>, <<"flow_stat", "protocol_stats">>}

\* pipeline.run_processing: the tables in the order given; a name that is not
\* in PROCESSORS is reported in a warning and passed over.
run_processing(tables, limit) ==
    LET known == SelectSeq(tables, LAMBDA t : t \in Tables)
    IN  /\ Len(known) = 1
        /\ \/ known[1] = "flow_stats" /\ ProcessFlow(limit, {})
           \/ known[1] = "protocol_stats" /\ ProcessProtocol(limit, {})

\* The pipeline given --tables, with unparsable files in the tree.
NextContract ==
    \/ \E router \in AVAILABLE_ROUTERS : \E t \in PipelineTimes(router) :
          InOrder(router, t, {}) /\ FileArrives(router, t)
    \/ MalformedFileArrives
    \/ sync_processed_files_table(TRUE)
    \/ \E tables \in TableLists : run_processing(tables, 0)

SpecContract == Init /\ [][NextContract]_vars

\* The capture times the path functions are tried on: minute resolution,
\* on both sides of an hour and of a day boundary.
PathMinutes == {0, 1, 5, 59, 60, 119}

PathTimes == {DATA_START_DATE + d * DaySecs + m * 60 : d \in 0 .. 1, m \in PathMinutes}

\* A path of the naming convention and three that are not: one with a suffix
\* after the timestamp (nfcapd.202503010000.tmp), one in the directory of
\* the following date, one whose timestamp is cut short.
PathVariants(path) ==
    {path,
     [path EXCEPT !.ext = <<"tmp">>],
     [path EXCEPT !.dir = @ + 1],
     [path EXCEPT !.name = <<@[1]>>]}

PathsTried ==
    UNION {PathVariants(construct_file_path(router, t)) :
             router \in AVAILABLE_ROUTERS, t \in PathTimes}

\* parse_file_path(construct_file_path(router, timestamp)).
RoundTrip(router, unix_ts) ==
    /\ last' = [op     |-> "roundtrip",
                router |-> router,
                timestamp |-> unix_ts,
                parsed |-> parse_file_path(construct_file_path(router, unix_ts))]
    /\ UNCHANGED <<tz, now, tree, pf, stats, run>>

\* parse_file_path(path): the tuple it returns, or the ValueError it raises.
ParsePath(path) ==
    /\ last' = [op     |-> "parse",
                path   |-> path,
                raised |-> RaisesValueError(path),
                parsed |-> IF RaisesValueError(path) THEN <<>> ELSE parse_file_path(path)]
    /\ UNCHANGED <<tz, now, tree, pf, stats, run>>

\* The path functions of common.py on their own.
NextPaths ==
    \/ \E router \in AVAILABLE_ROUTERS : \E t \in PathTimes : RoundTrip(router, t)
    \/ \E path \in PathsTried : ParsePath(path)

SpecPaths == Init /\ [][NextPaths]_vars

\* Discovery and the ip_stats processor over a tree that holds, beside the
\* capture files, a file with a suffix after the timestamp.
NextStray ==
    \/ \E router \in AVAILABLE_ROUTERS : \E t \in PipelineTimes(router) :
          InOrder(router, t, {}) /\ FileArrives(router, t)
    \/ StrayFileArrives
    \/ sync_processed_files_table(TRUE)
    \/ BeginProcess("ip_stats", 0, {})
    \/ \E unit \in (IF run.phase = "running" THEN run.todo ELSE {}) : ParentCommit(unit, {})

SpecStray == Init /\ [][NextStray]_vars

\* The half hours of the first day, by number.
HalfHours == 0 .. (DaySecs \div HalfHourSecs - 1)

\* The 5-minute slots of half hour h of the first day.
SlotsOfHalfHour(h) ==
    {DATA_START_DATE + h * HalfHourSecs + k * SecsPerSlot :
        k \in 0 .. (HalfHourSecs \div SecsPerSlot - 1)}

\* The catalog of r1's first day with a row for every slot: the half hours
\* `real` hold capture files, the others placeholders.
FullDayCatalog(real) ==
    LET slots == UNION {SlotsOfHalfHour(h) : h \in HalfHours}
    IN  [p \in {construct_file_path("r1", t) : t \in slots} |->
            NewRow("r1", parse_file_path(p).timestamp,
                   IF \E h \in real : parse_file_path(p).timestamp \in SlotsOfHalfHour(h)
                   THEN 1 ELSE 0)]

\* A catalog that holds every interval of one day of r1.
InitAggregate ==
    /\ tz \in TzOffsets
    /\ now = DATA_START_DATE + 3 * DaySecs
    /\ \E real \in SUBSET HalfHours :
          /\ pf = FullDayCatalog(real)
          /\ tree = {p \in DOMAIN pf : pf[p].file_exists = 1}
    /\ stats = [t \in Tables |-> <<>>]
    /\ run = Idle
    /\ last = [op |-> "init"]

\* The aggregates of the day's unit computed both ways, nfdump timing out on
\* every capture file of the half hours `failing`.
AggregateDay(failing) ==
    LET timeouts == {p \in DOMAIN pf :
                        /\ pf[p].file_exists = 1
                        /\ \E h \in failing : pf[p].timestamp \in SlotsOfHalfHour(h)}
    IN  /\ last.op = "init"
        /\ last' = [op       |-> "aggregate",
                    timeouts |-> timeouts,
                    keyed    |-> compute_aggregates(pf, "ip_stats", DOMAIN pf, timeouts,
                                                    "r1", DATA_START_DATE),
                    streamed |-> aggregate_buckets(pf, "ip_stats", timeouts,
                                                   "r1", DATA_START_DATE)]
        /\ UNCHANGED <<tz, now, tree, pf, stats, run>>

NextAggregate == \E failing \in SUBSET HalfHours : AggregateDay(failing)

SpecAggregate == InitAggregate /\ [][NextAggregate]_vars

\* All five processors, the flow and the protocol pipeline also as processes
\* of their own beside a day-parallel run in progress.
NextConcurrent ==
    \/ \E router \in AVAILABLE_ROUTERS : \E t \in PipelineTimes(router) :
          InOrder(router, t, {}) /\ FileArrives(router, t)
    \/ sync_processed_files_table(TRUE)
    \/ \E table \in DayParallelTables : BeginProcess(table, 0, {})
    \/ \E unit \in (IF run.phase = "running" THEN run.todo ELSE {}) :
          \/ ParentCommit(unit, {})
          \/ WorkerInsert(unit)
          \/ WorkerMark(unit)
    \/ ProcessFlow(0, {})
    \/ ProcessProtocol(0, {})
    \/ \E table \in {"flow_stats", "protocol_stats"} : OtherPipeline(table)

SpecConcurrent == Init /\ [][NextConcurrent]_vars

\* The number of 5-minute slots of a day.
SlotsPerDay == DaySecs \div SecsPerSlot

\* The values of limit the pending query is tried with: fewer than a day's
\* intervals, and about as many as two routers' complete day holds.
QueryLimits == {1, 6, 2 * SlotsPerDay - 1, 2 * SlotsPerDay}

\* Captures reach the tree in the order of their times.
ArrivesInOrder(router, unix_ts) ==
    /\ \A r \in AVAILABLE_ROUTERS : \A t \in ArrivalTimes(r) :
          t < unix_ts => construct_file_path(r, t) \in tree
    /\ FileArrives(router, unix_ts)

\* get_files_needing_processing(conn, table, limit) called on the catalog
\* as it stands.
QueryPending(table, limit) ==
    /\ run.phase = "idle"
    /\ \E result \in get_files_needing_processing(pf, table, limit, TRUE) :
          last' = [op |-> "pending", table |-> table, limit |-> limit, result |-> result]
    /\ UNCHANGED <<tz, now, tree, pf, stats, run>>

\* Discovery, the ip_stats processor with and without --limit, and the
\* pending query on every catalog they leave.
NextPending ==
    \/ \E router \in AVAILABLE_ROUTERS : \E t \in ArrivalTimes(router) : ArrivesInOrder(router, t)
    \/ sync_processed_files_table(TRUE)
    \/ \E limit \in Limits : BeginProcess("ip_stats", limit, {})
    \/ \E unit \in (IF run.phase = "running" THEN run.todo ELSE {}) : ParentCommit(unit, {})
    \/ \E limit \in QueryLimits : QueryPending("ip_stats", limit)

SpecPending == Init /\ [][NextPending]_vars

\* The values of --limit a series of runs is given: one interval, one half
\* hour's worth, and more than the catalog holds.
RepeatLimits == {1, 6, 4 * SlotsPerDay}

RECURSIVE CommitUnits(_, _, _, _, _)
\* The loop of the parent over the results of the tasks `todo`: each is
\* committed as ParentCommit commits it.  The units of a run write rows of
\* different (router, day) keys, so the order they come in is immaterial.
CommitUnits(db, table, tasks, todo, clock) ==
    IF todo = {} THEN db
    ELSE LET unit   == CHOOSE u \in todo : TRUE
             result == process_day_worker(db.pf, table, unit[1], unit[2], tasks[unit], {})
         IN  CommitUnits(
                 [pf    |-> batch_mark_processed(db.pf, table, result.mark_results, clock),
                  stats |-> insert_results(db.stats, table, result.rows_5m,
                                           result.rows_agg, {})],
                 table, tasks, todo \ {unit}, clock)

\* The run on the pending set `pending` of the store `db` after the stale
\* days were reset.
RunOn(db, table, pending, clock) ==
    CommitUnits(db, table, group_files_by_day(db.pf, pending), DayKeys(db.pf, pending), clock)

\* ip_db.process_pending_files(conn, limit) from call to return, no write
\* failing: the stores it can leave.
process_pending_files(cat, st, table, limit, clock) ==
    LET h == handle_stale_days(cat, st, table, clock)
    IN  {RunOn([pf |-> h.pf, stats |-> h.stats], table, pending, clock) :
            pending \in get_files_needing_processing(h.pf, table, limit, TRUE)}

\* A capture arrives, or discovery runs, before the first run of the series.
PrepareTree ==
    /\ last.op # "run"
    /\ \/ \E router \in AVAILABLE_ROUTERS : \E t \in PipelineTimes(router) :
             InOrder(router, t, {}) /\ FileArrives(router, t)
       \/ sync_processed_files_table(TRUE)

\* ip_db.process_pending_files(conn, limit) is called and returns, with the
\* limit the run before it was given.  `unset` are the intervals pending
\* when it was called; `in_vain` tells that it left the store as it was.
RepeatRun(limit) ==
    /\ run.phase = "idle"
    /\ last.op = "run" => limit = last.limit
    /\ \E after \in process_pending_files(pf, stats, "ip_stats", limit, now) :
          /\ pf' = after.pf
          /\ stats' = after.stats
          /\ last' = [op      |-> "run",
                      table   |-> "ip_stats",
                      limit   |-> limit,
                      calls   |-> IF last.op = "run" THEN 2 ELSE 1,
                      unset   |-> UnprocessedInCompleteDays(pf, "ip_stats"),
                      in_vain |-> after.pf = pf /\ after.stats = stats]
    /\ UNCHANGED <<tz, now, tree, run>>

\* ip_db.process_pending_files called again and again with one limit on a
\* tree and a catalog that nothing else changes, within the stale-day cutoff.
NextRepeat ==
    \/ PrepareTree
    \/ \E limit \in RepeatLimits : RepeatRun(limit)

SpecRepeat == Init /\ [][NextRepeat]_vars

\* The flow and the ip_stats processor, the INSERT of a 5m row failing in
\* some commits of the parent.
NextReject ==
    \/ \E router \in AVAILABLE_ROUTERS : \E t \in PipelineTimes(router) :
          InOrder(router, t, {}) /\ FileArrives(router, t)
    \/ sync_processed_files_table(TRUE)
    \/ BeginProcess("ip_stats", 0, {})
    \/ \E unit \in (IF run.phase = "running" THEN run.todo ELSE {}) :
          \/ ParentCommit(unit, {})
          \/ ParentCommitRowFails(unit)
    \/ ProcessFlow(0, {})

SpecReject == Init /\ [][NextReject]_vars

\* The spectrum_stats processor, its workers writing on their own
\* connections in any order, a capture arriving late and the run being
\* killed at any point.
NextCrash ==
    \/ \E router \in AVAILABLE_ROUTERS : \E t \in PipelineTimes(router) :
          InOrder(router, t, LateFiles) /\ FileArrives(router, t)
    \/ sync_processed_files_table(TRUE)
    \/ BeginProcess("spectrum_stats", 0, {})
    \/ \E unit \in (IF run.phase = "running" THEN run.todo ELSE {}) :
          \/ WorkerInsert(unit)
          \/ WorkerMark(unit)
    \/ Crash

SpecCrash == Init /\ [][NextCrash]_vars

\* ------------------------------------------------------------ properties

\* C1 (completion invariant): in every catalog state, a row has processed_at
\* set if and only if all five of its status columns are set.
CompletionInvariant ==
    \A p \in DOMAIN pf : (pf[p].processed_at # NULL) <=> AllStatusSet(pf[p])

\* The rows of a router at a timestamp.
RowsAt(router, unix_ts) ==
    {p \in DOMAIN pf : pf[p].router = router /\ pf[p].timestamp = unix_ts}

IdempotentDiscovery ==
    [][(last.op = "sync" /\ last'.op = "sync"
            /\ (last'.include_gaps => last.include_gaps))
        => (pf' = pf /\ last'.new_files = 0 /\ last'.gaps = 0)]_vars

\* A sync with gap synthesis has been repeated on a catalog that holds real
\* rows and placeholders.
IdempotentDiscoveryWitness ==
    /\ last.op = "sync" /\ last.repeat /\ last.include_gaps
    /\ last.discovered > 0
    /\ \E p \in DOMAIN pf : pf[p].file_exists = 0

\* The keys of the rows a table holds for a (router, local day).
DayRowKeys(table, unit) ==
    {k \in DOMAIN stats[table] :
        k[1] = unit[1] /\ k[3] >= unit[2] /\ k[3] < unit[2] + DaySecs}

\* The catalog rows of a (router, local day).
DayFiles(unit) ==
    {p \in DOMAIN pf : pf[p].router = unit[1] /\ LocalDayStart(pf[p].timestamp) = unit[2]}

\* The ip_stats rows of a day computed in one pass over all its intervals.
FromScratch(unit, timeouts) ==
    LET r == process_day_worker(pf, "ip_stats", unit[1], unit[2], DayFiles(unit), timeouts)
    IN  [k \in DOMAIN r.rows_5m \cup DOMAIN r.rows_agg |->
            IF k \in DOMAIN r.rows_5m THEN r.rows_5m[k] ELSE r.rows_agg[k]]

RecentDay(unit) == unit[2] >= LocalDayStart(now) - StaleCutoffDays * DaySecs

\* C4 (staleness convergence): after a full ip_stats run, every recent
\* complete day that was partly success and partly unset when the run began
\* holds exactly the rows one pass over all its intervals gives.
StalenessConvergence ==
    (last.op = "process" /\ last.table = "ip_stats" /\ last.limit = 0) =>
        \A unit \in last.partial :
            (RecentDay(unit) /\ unit \in get_complete_days(pf)) =>
                [k \in DayRowKeys("ip_stats", unit) |-> stats["ip_stats"][k]]
                    = FromScratch(unit, last.timeouts)

\* C5 (all-or-nothing day commit): a commit of a day unit in which a write
\* failed changes no rollup row and no status.
AllOrNothingCommit ==
    [][(run.phase = "running" /\ last'.op \in {"commit", "process"}
            /\ last'.outcome # "ok")
        => (stats' = stats /\ pf' = pf)]_vars

\* C6 (failures isolated per day): when a run returns, every dispatched unit
\* was consumed; the intervals of a unit whose transaction failed are unset
\* as before, those of every other unit are marked and have their 5m rows.
FailuresIsolated ==
    (last.op = "process" /\ DOMAIN last.tasks # {}) =>
        \A unit \in DOMAIN last.tasks :
            /\ unit \in DOMAIN last.outcomes
            /\ \A p \in last.tasks[unit] :
                  IF last.outcomes[unit] = "txn_error"
                  THEN pf[p].status[last.table] = NULL
                  ELSE /\ pf[p].status[last.table] # NULL
                       /\ <<pf[p].router, "5m", pf[p].timestamp>> \in DOMAIN stats[last.table]

\* A run of two units has returned, one transaction failed, the other committed.
FailuresIsolatedWitness ==
    /\ last.op = "process"
    /\ Cardinality(DOMAIN last.tasks) = 2
    /\ \E u, v \in DOMAIN last.outcomes :
          last.outcomes[u] = "txn_error" /\ last.outcomes[v] = "ok"

\* C7 as stated (single writer): every write of a processor is made by the
\* coordinating process, and no unit is left between its rows and its marks.
SingleWriter ==
    /\ "by" \in DOMAIN last => last.by = "parent"
    /\ run.phase = "running" => run.inserted = {}

\* C7 amended (single writer, spectrum_stats apart): every write of the flow,
\* ip, protocol and structure processors is made by the coordinating process,
\* one transaction per unit.
SingleWriterExceptSpectrum ==
    /\ ("by" \in DOMAIN last /\ last.table # "spectrum_stats") => last.by = "parent"
    /\ (run.phase = "running" /\ run.table # "spectrum_stats") => run.inserted = {}

\* The parent has committed the first of two structure_stats units.
SingleWriterWitness ==
    /\ last.op = "commit" /\ last.table = "structure_stats" /\ last.by = "parent"
    /\ run.phase = "running" /\ run.todo # {}

\* C8 (complete days only): the intervals dispatched lie in days that end at
\* or before the horizon, and every rollup row ends at or before the horizon.
RollupsWithinHorizon ==
    LET H == compute_data_horizon(pf)
    IN  /\ \A t \in Tables : \A k \in DOMAIN stats[t] : stats[t][k].bucket_end <= H
        /\ run.phase = "running" =>
              \A unit \in DOMAIN run.tasks : \A p \in run.tasks[unit] :
                  LocalDayStart(pf[p].timestamp) + DaySecs <= H

\* A 1d row ends exactly at the horizon.
RollupsWithinHorizonWitness ==
    \E k \in DOMAIN stats["ip_stats"] :
        k[2] = "1d" /\ stats["ip_stats"][k].bucket_end = compute_data_horizon(pf)

\* C9 (rollups cover the whole bucket): every 30m, 1h and 1d ip_stats row is
\* the merge of all the router's successfully extracted intervals that lie in
\* the row's bucket.
RollupsCoverWholeBucket ==
    \A k \in DOMAIN stats["ip_stats"] :
        k[2] \in Granularities =>
            stats["ip_stats"][k].val =
                Finalize("ip_stats",
                    UNION {FileIps(p) :
                        p \in {q \in DOMAIN pf :
                                 /\ pf[q].router = k[1]
                                 /\ pf[q].timestamp >= k[3]
                                 /\ pf[q].timestamp < stats["ip_stats"][k].bucket_end
                                 /\ pf[q].file_exists = 1
                                 /\ pf[q].status["ip_stats"] = 1}})

\* The rows of one granularity a table holds for a (router, local day).
RowCount(table, unit, granularity) ==
    Cardinality({k \in DayRowKeys(table, unit) : k[2] = granularity})

\* C10 (four granularities): once all intervals of a complete day, one per
\* slot, are marked success for a bucketed table, the table holds the day's
\* 5m, 30m, 1h and 1d rows in full number.
FourGranularities ==
    \A t \in Tables \ {"flow_stats"} : \A unit \in get_complete_days(pf) :
        (/\ Cardinality(DayFiles(unit)) = DaySecs \div SecsPerSlot
         /\ \A p \in DayFiles(unit) : pf[p].status[t] = 1)
        => /\ RowCount(t, unit, "5m") = DaySecs \div SecsPerSlot
           /\ RowCount(t, unit, "30m") = DaySecs \div HalfHourSecs
           /\ RowCount(t, unit, "1h") = DaySecs \div HourSecs
           /\ RowCount(t, unit, "1d") = 1

\* The catalog rows of a router in the day that starts at day_start, as
\* reset_day_for_reprocessing delimits it.
RowsOfDay(cat, d) ==
    {p \in DOMAIN cat : cat[p].router = d[1] /\ cat[p].timestamp >= d[2]
                                              /\ cat[p].timestamp < d[2] + DaySecs}

\* Every row a table holds for such a day in `st` is in `st2` unchanged.
RowsKept(st, st2, table, d) ==
    \A k \in DOMAIN st[table] :
        InDay(k, d[1], d[2]) => (k \in DOMAIN st2[table] /\ st2[table][k] = st[table][k])

\* C11 (old stale days are left alone): a stale day that starts more than
\* the cutoff before now is counted as stale and as skipped by the stale-day
\* step of an ip_stats run, which resets none of its statuses and deletes
\* none of its rows, and no later step of that run changes its rollup rows.
OldStaleDayUntouched ==
    [][/\ (last'.op \in {"dispatch", "process"} /\ run.phase = "idle") =>
             /\ last'.skipped = SkippedOldDays(pf, last'.table, now)
             /\ last'.stale.stale_days_skipped_old = Cardinality(last'.skipped)
             /\ last'.stale.stale_days_total >= Cardinality(last'.skipped)
             /\ \A d \in last'.skipped :
                   /\ \A p \in RowsOfDay(pf, d) : pf'[p] = pf[p]
                   /\ RowsKept(stats, stats', last'.table, d)
       /\ run.phase = "running" =>
             \A d \in run.skipped :
                 RowsKept(stats, stats', run.table, d)]_vars

\* Every interval of a (router, local day) has the same status for the table.
UniformDay(unit, table, value) ==
    \A p \in DayFiles(unit) : pf[p].status[table] = value

\* C12 (days that are not stale are left alone): the stale-day step of a run
\* resets no status and deletes no rollup row of a calendar day whose
\* intervals are all success for the table, nor of one whose intervals are
\* all unset.
UniformDayUntouched ==
    [][(run.phase = "idle" /\ last'.op \in {"dispatch", "process"}
            /\ "skipped" \in DOMAIN last')
        => \A unit \in DayKeys(pf, DOMAIN pf) :
              (UniformDay(unit, last'.table, 1) \/ UniformDay(unit, last'.table, NULL))
              => /\ \A p \in DayFiles(unit) : pf'[p] = pf[p]
                 /\ RowsKept(stats, stats', last'.table, unit)]_vars

\* The timestamps of `files` are the 18 slots from T on, T a half-hour
\* boundary of local time that is not an hour boundary.
HalfHourRun(files, T) ==
    /\ unix_to_timestamp(T) % HourSecs = HalfHourSecs
    /\ {pf[p].timestamp : p \in files} = {T + k * SecsPerSlot : k \in 0 .. 17}
    /\ Cardinality(files) = 18

\* C13 (bucket alignment): of a dispatched unit that is a 90-minute run of
\* intervals starting on the half hour, the worker's result closes exactly
\* one 30m bucket by the next hour boundary and holds no 1h row built from
\* fewer than the hour's twelve intervals.
BucketAlignment ==
    run.phase = "running" =>
        \A unit \in run.todo : \A p \in run.tasks[unit] :
            HalfHourRun(run.tasks[unit], pf[p].timestamp) =>
                LET T   == pf[p].timestamp
                    agg == ResultOf(unit).rows_agg
                IN  /\ Cardinality({k \in DOMAIN agg :
                                      k[2] = "30m" /\ agg[k].bucket_end <= T + HalfHourSecs}) = 1
                    /\ \A k \in DOMAIN agg :
                          k[2] = "1h" =>
                              Cardinality({q \in run.tasks[unit] :
                                             /\ pf[q].timestamp >= k[3]
                                             /\ pf[q].timestamp < agg[k].bucket_end})
                                  = HourSecs \div SecsPerSlot

\* The value of a router's flow_stats row at a timestamp, 0 if there is none.
FlowValue(router, unix_ts) ==
    IF <<router, "file", unix_ts>> \in DOMAIN stats["flow_stats"]
    THEN stats["flow_stats"][<<router, "file", unix_ts>>].val ELSE 0

\* C14 (a day with a hole): once r1's first day, with real files at 00:00,
\* 00:05 and 00:15 and none at 00:10, is complete and its first four
\* intervals are marked success for flow_stats, the catalog holds a
\* placeholder for 00:10, flow_stats holds a row for each of the four
\* intervals, that of 00:10 with value 0, and a 30m row for [00:00, 00:30)
\* whose value is the sum of the three real files' values.
FlowScenario ==
    LET T(i)   == DATA_START_DATE + i * SecsPerSlot
        row(i) == construct_file_path("r1", T(i))
    IN  (/\ \A i \in 0 .. 3 : row(i) \in DOMAIN pf /\ pf[row(i)].status["flow_stats"] = 1
         /\ \A i \in {0, 1, 3} : pf[row(i)].file_exists = 1
         /\ compute_data_horizon(pf) >= DATA_START_DATE + DaySecs)
        => /\ pf[row(2)].file_exists = 0
           /\ \A i \in 0 .. 3 : <<"r1", "file", T(i)>> \in DOMAIN stats["flow_stats"]
           /\ FlowValue("r1", T(2)) = 0
           /\ <<"r1", "30m", T(0)>> \in DOMAIN stats["flow_stats"]
           /\ stats["flow_stats"][<<"r1", "30m", T(0)>>].val
                 = FlowValue("r1", T(0)) + FlowValue("r1", T(1)) + FlowValue("r1", T(3))

\* C15 (status state machine): a status changes only from unset to success
\* or failure, in a step that commits a processing result, or from success
\* or failure to unset, in the stale-day step of a run that reset a day;
\* never between success and failure.
StatusTransitions ==
    [][\A p \in DOMAIN pf : \A t \in Tables :
          pf'[p].status[t] # pf[p].status[t] =>
              \/ /\ pf[p].status[t] = NULL
                 /\ run.phase = "running" /\ run.table = t
                 /\ last'.op \in {"commit", "process"}
                 /\ p \in run.tasks[last'.unit]
              \/ /\ pf'[p].status[t] = NULL
                 /\ run.phase = "idle" /\ last'.op \in {"dispatch", "process"}
                 /\ last'.table = t /\ last'.stale.stale_days_reset > 0]_vars

\* The stale-day step of a run has just reset a day that held successes and
\* a failure.
StatusTransitionsWitness ==
    /\ last.op = "dispatch" /\ last.stale.stale_days_reset > 0
    /\ last.cleared = {0, 1}

\* C16 (failures are retried): an interval that stands at failure for the
\* table when a run without --limit begins is among the intervals that run
\* dispatches.
FailedRetried ==
    [][(run.phase = "idle" /\ last'.op \in {"dispatch", "process"}
            /\ "limit" \in DOMAIN last' /\ last'.limit = 0)
        => \A p \in DOMAIN pf :
              pf[p].status[last'.table] = 0 =>
                  /\ run'.phase = "running"
                  /\ \E unit \in DOMAIN run'.tasks : p \in run'.tasks[unit]]_vars

\* C17 (the mark completes the row): every interval the protocol processor
\* marks with mark_file_processed has its status set, has processed_at set
\* if all five statuses are set once marked, and keeps a processed_at it
\* already had.
MarkCompletesRow ==
    [][(last'.op = "process" /\ last'.table = "protocol_stats")
        => \A p \in last'.files :
              /\ pf'[p].status["protocol_stats"] # NULL
              /\ AllStatusSet(pf'[p]) => pf'[p].processed_at # NULL
              /\ pf[p].processed_at # NULL => pf'[p].processed_at = pf[p].processed_at]_vars

\* The intervals a processor has just taken as its pending set.
PendingTaken ==
    IF "files" \in DOMAIN last THEN last.files
    ELSE IF run.phase = "running" THEN UNION {run.tasks[unit] : unit \in DOMAIN run.tasks}
    ELSE {}

\* C18 (invalidation precedes the pending query): when a processor builds
\* its pending set, every recent complete day that had both success and
\* unset intervals for its table when the run began is in that set entire.
StaleResetBeforePending ==
    [][(run.phase = "idle" /\ last'.op \in {"dispatch", "process"})
        => \A unit \in PartialDays(pf, last'.table) :
              (RecentDay(unit) /\ unit \in get_complete_days(pf))
              => DayFiles(unit) \subseteq PendingTaken']_vars

\* The intervals the run that has just returned had taken as pending.
PendingOfLast ==
    IF "files" \in DOMAIN last THEN last.files
    ELSE UNION {last.tasks[unit] : unit \in DOMAIN last.tasks}

\* C19 (extraction failures are recorded): when a run returns, every
\* interval on whose file nfdump timed out is marked failure for the table,
\* and every other interval the run took is marked too.
ExtractionFailureRecorded ==
    last.op = "process" =>
        /\ \A p \in last.timeouts : pf[p].status[last.table] = 0
        /\ \A p \in PendingOfLast : pf[p].status[last.table] # NULL

\* C20 (contract failures are fatal): a process phase given a table name
\* that is not a metric table, and a discovery that meets a path it cannot
\* parse, change neither the catalog nor any metric table.
ContractFailureFatal ==
    [][((\E tables \in TableLists :
            /\ \E i \in DOMAIN tables : tables[i] \notin Tables
            /\ run_processing(tables, 0))
        \/ (last'.op = "sync" /\ \E p \in tree : RaisesValueError(p)))
       => (pf' = pf /\ stats' = stats)]_vars

\* A path of the naming convention: nothing after the timestamp, the
\* timestamp whole, the directory that of the timestamp's date.
ConventionalPath(path) ==
    /\ path.ext = <<>>
    /\ Len(path.name) = 2
    /\ path.dir = path.name[1]

\* C21 (path round trip and rejection): parsing the path constructed for a
\* router and a minute-resolution timestamp gives back that router and that
\* timestamp, and parse_file_path raises ValueError for every path that is
\* not of the naming convention.
PathRoundTripAndRejection ==
    /\ last.op = "roundtrip" =>
          last.parsed = [router |-> last.router, timestamp |-> last.timestamp]
    /\ (last.op = "parse" /\ ~ConventionalPath(last.path)) => last.raised

\* The catalog rows outside a (router, local day) are the same in both catalogs.
OtherRowsSame(cat, cat2, unit) ==
    \A p \in DOMAIN cat :
        (cat[p].router # unit[1] \/ LocalDayStart(cat[p].timestamp) # unit[2])
        => cat2[p] = cat[p]

\* The rollup rows outside a table's (router, local day) are the same in both.
OtherRollupsSame(st, st2, table, unit) ==
    \A t \in Tables :
        /\ \A k \in DOMAIN st2[t] \ DOMAIN st[t] :
              t = table /\ InDay(k, unit[1], unit[2])
        /\ \A k \in DOMAIN st[t] :
              (t # table \/ ~InDay(k, unit[1], unit[2]))
              => (k \in DOMAIN st2[t] /\ st2[t][k] = st[t][k])

\* C22 (day-unit transactions are disjoint): the parent's commit of a day
\* unit changes only rollup rows of the unit's table, router and day, and
\* only catalog rows of the unit's router and day.
DayCommitFrame ==
    [][(run.phase = "running" /\ last'.op \in {"commit", "process"}
            /\ last'.by = "parent")
        => /\ OtherRowsSame(pf, pf', last'.unit)
           /\ OtherRollupsSame(stats, stats', run.table, last'.unit)]_vars

\* C23 (stale days): get_stale_days returns exactly the days, as sets of
\* intervals of one router's calendar day, that hold at least one interval
\* at success and at least one unset for the table; a day of failure and
\* unset only, or of success and failure only, is not among them.
StaleDaysExact ==
    \A t \in Tables :
        {RowsOfDay(pf, d) : d \in get_stale_days(pf, t)}
            = {DayFiles(unit) : unit \in PartialDays(pf, t)}

\* Unix time unix_ts lies in the 24 hours from day_start.
WithinDay(unix_ts, day_start) == unix_ts >= day_start /\ unix_ts < day_start + DaySecs

\* A (router, time) is of one of the (router, day_start) pairs `days`.
HitBy(days, router, unix_ts) ==
    \E d \in days : d[1] = router /\ WithinDay(unix_ts, d[2])

\* From (cat, st) to (cat2, st2), the rows of `table` in `days` are deleted
\* and its statuses there unset, and nothing else is changed.
ResetOnly(cat, cat2, st, st2, table, days) ==
    /\ \A k \in DOMAIN st2[table] : ~HitBy(days, k[1], k[3])
    /\ \A p \in DOMAIN cat :
          /\ HitBy(days, cat[p].router, cat[p].timestamp) => cat2[p].status[table] = NULL
          /\ ~HitBy(days, cat[p].router, cat[p].timestamp) => cat2[p] = cat[p]
          /\ \A t \in Tables \ {table} : cat2[p].status[t] = cat[p].status[t]
          /\ cat2[p].processed_at = cat[p].processed_at
    /\ \A t \in Tables \ {table} : st2[t] = st[t]
    /\ \A k \in DOMAIN st[table] :
          ~HitBy(days, k[1], k[3]) => (k \in DOMAIN st2[table] /\ st2[table][k] = st[table][k])

\* C24 (reset of a day): the stale-day step of a run, for every (router,
\* day) it resets, deletes every rollup row of the table and router whose
\* bucket starts in the day and unsets the table's status of every interval
\* of the router in the day; it changes no status of another table, no
\* rollup row of another table, and no row of a router and day it does not
\* reset.
ResetDayFrame ==
    [][(run.phase = "idle" /\ last'.op \in {"dispatch", "process"}
            /\ "cleared" \in DOMAIN last')
        => ResetOnly(pf, pf', stats, stats', last'.table,
                     RecentStaleDays(pf, last'.table, now))]_vars

\* The stale-day step of a structure_stats run has just reset a day whose
\* intervals keep their flow_stats status, with rows of the other router
\* and of another table in place.
ResetDayFrameWitness ==
    /\ last.op = "dispatch" /\ last.table = "structure_stats"
    /\ last.stale.stale_days_reset > 0 /\ last.cleared = {1}
    /\ \E p \in DOMAIN pf : /\ pf[p].status["structure_stats"] = NULL
                            /\ pf[p].status["flow_stats"] = 1
    /\ \E k \in DOMAIN stats["structure_stats"] : k[2] = "1d"
    /\ \E k \in DOMAIN stats["flow_stats"] : k[1] = "r1"
    /\ \E u \in DayKeys(pf, DOMAIN pf) :
          /\ \A p \in DayFiles(u) : pf[p].status["structure_stats"] = NULL
          /\ DayRowKeys("structure_stats", u) = {}

RECURSIVE InTimeOrder(_, _)
\* The files of a unit as the worker is handed them: ORDER BY timestamp ASC,
\* appended to the unit's list in that order.  Which of two rows of one
\* timestamp comes first is not defined.
InTimeOrder(cat, files) ==
    IF files = {} THEN <<>>
    ELSE LET p == CHOOSE q \in files : \A r \in files : cat[q].timestamp <= cat[r].timestamp
         IN  <<p>> \o InTimeOrder(cat, files \ {p})

\* C25 (time order within a unit): the intervals of every dispatched unit,
\* in the order the worker processes them, have strictly increasing
\* timestamps.
StrictTimeOrder ==
    run.phase = "running" =>
        \A unit \in DOMAIN run.tasks :
            LET day_files == InTimeOrder(pf, run.tasks[unit])
            IN  \A i \in 1 .. (Len(day_files) - 1) :
                    pf[day_files[i]].timestamp < pf[day_files[i + 1]].timestamp

\* C26 (bucket-keyed and streaming aggregation agree): for a unit that holds
\* every interval of a day, compute_aggregates of ip_db gives the same 30m,
\* 1h and 1d rows, with the same bounds and merged values, as the streaming
\* walk of protocol_db.aggregate_buckets over the same extraction results.
AggregationsAgree ==
    last.op = "aggregate" => last.keyed = last.streamed

\* C27 (finalize once per bucket): the worker of a spectrum_stats or
\* structure_stats task calls the finalize function at most once for each
\* bucket of each granularity, the 5m buckets included.
FinalizeOncePerBucket ==
    (run.phase = "running" /\ run.table \in {"spectrum_stats", "structure_stats"}) =>
        \A unit \in DOMAIN run.tasks :
            LET calls == FinalizeCalls(pf, run.table, unit[1], unit[2],
                                       run.tasks[unit], run.timeouts)
            IN  \A k \in DOMAIN calls : calls[k] <= 1

\* The addresses of the capture files among `files` whose time lies in
\* [bucket_start, bucket_end).
AddressesIn(files, bucket_start, bucket_end) ==
    UNION {FileIps(p) : p \in {q \in files : /\ pf[q].file_exists = 1
                                             /\ pf[q].timestamp >= bucket_start
                                             /\ pf[q].timestamp < bucket_end}}

\* In `result`, the worker's result for `files`, the files of `timeouts` are
\* failures left out of every aggregate, and every other file is a success
\* with its 5m row and a bucket of each granularity that holds it.
TimeoutsLeftOut(result, files, timeouts) ==
    /\ \A p \in files \cap timeouts : ~result.mark_results[p]
    /\ \A p \in files \ timeouts :
          /\ result.mark_results[p]
          /\ <<pf[p].router, "5m", pf[p].timestamp>> \in DOMAIN result.rows_5m
          /\ result.rows_5m[<<pf[p].router, "5m", pf[p].timestamp>>].val
                = IpCount(AddressesIn({p}, pf[p].timestamp, pf[p].timestamp + SecsPerSlot))
          /\ \A g \in Granularities :
                \E k \in DOMAIN result.rows_agg :
                    /\ k[2] = g
                    /\ pf[p].timestamp >= k[3]
                    /\ pf[p].timestamp < result.rows_agg[k].bucket_end
    /\ \A k \in DOMAIN result.rows_agg :
          result.rows_agg[k].val
              = IpCount(AddressesIn(files \ timeouts, k[3], result.rows_agg[k].bucket_end))

\* C28 (a timeout fails one file only): in the result of an ip_stats worker,
\* a file whose extraction timed out is reported as failed and adds nothing
\* to the day's 30m, 1h and 1d aggregates, and every other file of the day
\* is reported as success, has its 5m row and is merged into the aggregates.
TimeoutContained ==
    (run.phase = "running" /\ run.table = "ip_stats") =>
        \A unit \in DOMAIN run.tasks :
            TimeoutsLeftOut(ResultOf(unit), run.tasks[unit], run.timeouts)

\* A dispatched ip_stats unit holds a file that times out and capture files
\* that do not.
TimeoutContainedWitness ==
    /\ run.phase = "running" /\ run.table = "ip_stats"
    /\ \E unit \in run.todo :
          /\ run.tasks[unit] \cap run.timeouts # {}
          /\ \E p \in run.tasks[unit] \ run.timeouts : pf[p].file_exists = 1

\* The catalog rows of capture files.
RealRows == {p \in DOMAIN pf : pf[p].file_exists = 1}

\* C29 (data horizon): compute_data_horizon is DATA_START_DATE when the
\* catalog holds no capture file, and otherwise the time of a capture file
\* that no capture file of any router is later than; it is the same with the
\* placeholders taken out of the catalog.
DataHorizonIsLatestFile ==
    LET H == compute_data_horizon(pf)
    IN  /\ RealRows = {} => H = DATA_START_DATE
        /\ RealRows # {} => /\ \E p \in RealRows : pf[p].timestamp = H
                            /\ \A p \in RealRows : pf[p].timestamp <= H
        /\ compute_data_horizon([p \in RealRows |-> pf[p]]) = H

\* The catalog holds placeholders and capture files of both routers, the
\* latest of them one of r2.
DataHorizonWitness ==
    /\ \E p \in DOMAIN pf : pf[p].file_exists = 0
    /\ \E p \in RealRows : pf[p].router = "r1"
    /\ \E p \in RealRows : /\ pf[p].router = "r2"
                           /\ \A q \in RealRows : pf[q].router = "r1"
                                                    => pf[q].timestamp < pf[p].timestamp

\* C30 (every unit consumed exactly once): in a run of a parent-commit
\* processor each pending interval is in exactly one dispatched unit; each
\* step of the coordinator consumes a unit not consumed before, in whatever
\* order, and counts it; and when the run returns every dispatched unit has
\* been consumed and stats['days'] is the number of dispatched units.
UnitsConsumedOnce ==
    [][(run.phase = "running" /\ run.table \notin WorkerWritesDirectly
            /\ last'.op \in {"commit", "process"})
        => /\ \A unit \in DOMAIN run.tasks : \A p \in run.tasks[unit] :
                 \A other \in DOMAIN run.tasks : p \in run.tasks[other] => other = unit
           /\ last'.unit \in run.todo
           /\ last'.unit \notin DOMAIN run.outcomes
           /\ last'.days = run.days + 1
           /\ run'.phase = "running" =>
                 /\ last'.unit \notin run'.todo
                 /\ run'.todo \cup DOMAIN run'.outcomes = DOMAIN run.tasks
                 /\ run'.days = last'.days
           /\ last'.op = "process" =>
                 /\ DOMAIN last'.outcomes = DOMAIN run.tasks
                 /\ last'.days = Cardinality(DOMAIN run.tasks)]_vars

\* A run of two units has returned, the unit dispatched first consumed last
\* and one of the two commits rolled back.
UnitsConsumedOnceWitness ==
    /\ last.op = "process"
    /\ Cardinality(DOMAIN last.tasks) = 2 /\ last.days = 2
    /\ last.by = "parent" /\ last.unit[1] = "r1"
    /\ \E unit \in DOMAIN last.outcomes : last.outcomes[unit] = "txn_error"

\* The tables whose status of row p differs between two catalogs.
StatusesChanged(cat, cat2, p) == {t \in Tables : cat2[p].status[t] # cat[p].status[t]}

\* C31 (interleaved status updates): while a day-parallel run is in progress
\* and another pipeline commits between its commits, a commit of either that
\* marks an interval changes the status of its own table alone, leaves the
\* statuses the other has set as they are, and leaves processed_at set on
\* every interval it marks that then has all five statuses set.
NoLostStatusUpdate ==
    [][run.phase = "running"
        => \A p \in DOMAIN pf :
              StatusesChanged(pf, pf', p) # {}
                 => /\ StatusesChanged(pf, pf', p) = {last'.table}
                    /\ pf'[p].status[last'.table] # NULL
                    /\ AllStatusSet(pf'[p]) => pf'[p].processed_at # NULL]_vars

\* C32 (every capture file is catalogued as real): after a sync, every
\* capture file in the tree whose timestamp is not before DATA_START_DATE
\* has a catalog row with file_exists = 1, a file that arrived after its
\* slot was synthesized as a gap included.
CaptureFilesCatalogued ==
    last.op = "sync" =>
        \A p \in tree :
            parse_file_path(p).timestamp >= DATA_START_DATE
                => p \in DOMAIN pf /\ pf[p].file_exists = 1

\* The intervals with the table's status unset that lie in a day that ends
\* at or before the data horizon.
UnsetInCompleteDays(cat, table) ==
    {p \in DOMAIN cat :
        /\ cat[p].status[table] = NULL
        /\ LocalDayStart(cat[p].timestamp) + DaySecs <= compute_data_horizon(cat)}

\* C34 (limit and complete-day filter): get_files_needing_processing with a
\* limit L returns min(L, |E|) intervals of E, the unset intervals of
\* complete days, and none of E that it leaves out is earlier than one it
\* returns.
LimitedPendingIsPrefix ==
    last.op = "pending" =>
        LET E == UnsetInCompleteDays(pf, last.table)
        IN  /\ last.result \subseteq E
            /\ Cardinality(last.result) =
                  IF last.limit < Cardinality(E) THEN last.limit ELSE Cardinality(E)
            /\ \A p \in last.result : \A q \in E \ last.result :
                  pf[p].timestamp <= pf[q].timestamp

\* The limit cut the query short of unset intervals, and the filter then
\* took intervals of an incomplete day out of what the query gave.
LimitedPendingWitness ==
    /\ last.op = "pending"
    /\ last.limit < Cardinality(Unprocessed(pf, last.table))
    /\ last.result # {}
    /\ Cardinality(last.result) < last.limit

\* C33 (limited runs converge): in a series of process_pending_files calls
\* of ip_stats with one limit, on a tree that does not change, a call after
\* the first that finds intervals of complete days unset does not return
\* with the catalog and the ip_stats rows exactly as it found them (from
\* where every later call does the same and the series never ends).
LimitedRunsConverge ==
    (last.op = "run" /\ last.calls > 1 /\ last.unset # {}) => ~last.in_vain

\* C35 (a success mark has its row): in every committed state of the store,
\* every interval marked success for ip_stats has its 5m ip_stats row and
\* every interval marked success for flow_stats has its netflow_stats row.
SuccessMarkHasRow ==
    \A p \in DOMAIN pf :
        /\ pf[p].status["ip_stats"] = 1
              => <<pf[p].router, "5m", pf[p].timestamp>> \in DOMAIN stats["ip_stats"]
        /\ pf[p].status["flow_stats"] = 1
              => <<pf[p].router, "file", pf[p].timestamp>> \in DOMAIN stats["flow_stats"]

\* The catalog rows that reset_day_for_reprocessing(table, router, day_start)
\* sets back: those of the router in [day_start, day_start + 86400).
RowsResetFor(router, day_start) ==
    {q \in DOMAIN pf : /\ pf[q].router = router
                       /\ pf[q].timestamp >= day_start
                       /\ pf[q].timestamp < day_start + DaySecs}

\* C36 (one day key): for every interval of the catalog, the day that
\* get_stale_days and reset_day_for_reprocessing put it in (the timestamp
\* floored to a multiple of the day length) holds the same intervals as the
\* day group_files_by_day and get_complete_days put it in (local midnight).
DayKeysAgree ==
    \A p \in DOMAIN pf :
        RowsResetFor(pf[p].router, SqlDayStart(pf[p].timestamp))
            = DayFiles(<<pf[p].router, LocalDayStart(pf[p].timestamp)>>)

\* C37 (the catalog only grows): no step of discovery, gap synthesis,
\* stale-day reset or processing deletes a catalog row or changes a row's
\* file_exists, and none lowers the data horizon.
CatalogOnlyGrows ==
    [][/\ \A p \in DOMAIN pf :
             p \in DOMAIN pf' /\ pf'[p].file_exists = pf[p].file_exists
       /\ compute_data_horizon(pf') >= compute_data_horizon(pf)]_vars

\* A run has just reset a stale day of a catalog that holds capture files
\* and placeholders, the horizon past the start date.
CatalogOnlyGrowsWitness ==
    /\ last.op \in {"dispatch", "process"}
    /\ last.table = "ip_stats"
    /\ last.stale.stale_days_reset > 0
    /\ \E p, q \in DOMAIN pf : pf[p].file_exists = 1 /\ pf[q].file_exists = 0
    /\ compute_data_horizon(pf) > DATA_START_DATE

\* The keys of the rollup rows an interval at unix_ts of a router counts in:
\* its 5m row and the 30m, 1h and 1d rows of its local day.
RollupKeysOf(router, unix_ts) ==
    {<<router, "5m", unix_ts>>}
        \cup {<<router, g, BucketStart(g, unix_ts, LocalDayStart(unix_ts))>> : g \in Granularities}

\* The intervals whose spectrum_stats status a step sets.
NewlyMarked(cat, cat2) ==
    {p \in DOMAIN cat : cat[p].status["spectrum_stats"] = NULL
                        /\ cat2[p].status["spectrum_stats"] # NULL}

====
